---- MODULE Spec2Model ----
(***************************************************************************)
(* Phase segmentation and thermal flux of the mashing analysis tool        *)
(* (src/v3.py, src/pages/1_Phase_Analysis.py).                             *)
(*                                                                         *)
(* Units.  Elapsed minutes are integers.  greast_case_weight and the       *)
(* derived grist_flow are held in tenths of a kilogram, so that the        *)
(* threshold 0.5 of detect_phases_new is the integer 5 and the threshold   *)
(* 10 of detect_phases is 100.  heat_available is held in units of 1/6000, *)
(* so that the division by 60.0 and cp_water = 4.18 stay integral:         *)
(* 6000 * ((flow / 60) * 4.18 * dT) = flow * 418 * dT.                     *)
(* A missing value (numpy NaN) is the number NaN below; every arithmetic   *)
(* and comparison on cell values goes through the NaN-aware operators.     *)
(***************************************************************************)
EXTENDS Integers, Sequences, FiniteSets, TLC

VARIABLES batch, called, ret, local, pool, session_state, files

vars == <<batch, called, ret, local, pool, session_state, files>>

\* ------------------------------------------------------------------------
\* Bounds of the model
\* ------------------------------------------------------------------------
\* Longest batch (number of samples) handed to the segmentation.
MaxLen == 3
\* Longest frame handed to calculate_heat_available.
MaxHeatLen == 3

\* ------------------------------------------------------------------------
\* numpy / pandas cell arithmetic
\* ------------------------------------------------------------------------
NaN == -1000000

IsNaN(x) == x = NaN

NotNa(x) == x # NaN

Add(x, y) == IF IsNaN(x) \/ IsNaN(y) THEN NaN ELSE x + y

Sub(x, y) == IF IsNaN(x) \/ IsNaN(y) THEN NaN ELSE x - y

Mul(x, y) == IF IsNaN(x) \/ IsNaN(y) THEN NaN ELSE x * y

Neg(x) == IF IsNaN(x) THEN NaN ELSE 0 - x

\* Every ordered comparison with NaN is False.
Gt(x, y) == NotNa(x) /\ NotNa(y) /\ x > y

Ge(x, y) == NotNa(x) /\ NotNa(y) /\ x >= y

Lt(x, y) == NotNa(x) /\ NotNa(y) /\ x < y

\* Mutation of PyMin: the cap is lost, the first argument always wins.
PyMinUncapped(a, b) == a

\* Python's builtin min(a, b) and max(a, b): the first argument is kept unless
\* the second compares strictly smaller (larger).
PyMin(a, b) == IF Lt(b, a) THEN b ELSE a

PyMax(a, b) == IF Gt(b, a) THEN b ELSE a

\* Series.clip(lower=k): NaN stays NaN.
ClipLower(x, k) == IF Lt(x, k) THEN k ELSE x

\* Series.fillna(k)
FillNa(x, k) == IF IsNaN(x) THEN k ELSE x

Column(df, c) == [i \in 1..Len(df) |-> df[i][c]]

Valid(s) == {i \in 1..Len(s) : NotNa(s[i])}

\* Series.min() / Series.max(): NaN values are skipped, NaN when nothing is left.
SeriesMin(s) ==
    IF Valid(s) = {} THEN NaN
    ELSE CHOOSE v \in {s[i] : i \in Valid(s)} : \A j \in Valid(s) : v <= s[j]

SeriesMax(s) ==
    IF Valid(s) = {} THEN NaN
    ELSE CHOOSE v \in {s[i] : i \in Valid(s)} : \A j \in Valid(s) : v >= s[j]

\* Series.diff(): the first element has no predecessor.
Diff(s) == [i \in 1..Len(s) |-> IF i = 1 THEN NaN ELSE Sub(s[i], s[i - 1])]

\* Series.idxmin(): position of the first occurrence of the minimum, 0 when
\* the call raises (empty or all-missing series).
IdxMin(s) ==
    IF Valid(s) = {} THEN 0
    ELSE CHOOSE i \in Valid(s) :
            /\ \A j \in Valid(s) : s[i] <= s[j]
            /\ \A j \in Valid(s) : j < i => s[j] > s[i]

\* Outcome of one step: a value, or the exception the step raised.
Val(v) == [exc |-> "none", v |-> v]

Raise(e) == [exc |-> e, v |-> NaN]

\* Series.iloc[0] and Series.iloc[-1]
\* Mutation of IlocFirst: the last element is read.
IlocFirstAsLast(s) == IF Len(s) = 0 THEN Raise("IndexError") ELSE Val(s[Len(s)])

IlocFirst(s) == IF Len(s) = 0 THEN Raise("IndexError") ELSE Val(s[1])

IlocLast(s) == IF Len(s) = 0 THEN Raise("IndexError") ELSE Val(s[Len(s)])

\* df.loc[label, 'minutes'] for the label idxmin returned
LocMinutes(df, idx) ==
    IF idx \notin 1..Len(df) THEN Raise("ValueError") ELSE Val(df[idx].minutes)

\* ------------------------------------------------------------------------
\* Thresholds of the two segmentation variants
\* ------------------------------------------------------------------------
\* grist_flow > 0.5 (tenths of a kilogram)
GristThresholdNew == 5
\* grist_flow > 10 (tenths of a kilogram)
GristThresholdOld == 100
\* sparging_mashing_water_flow > 200
HighFlowNew == 200
\* sparging_mashing_water_flow > 300
HighFlowOld == 300
\* sparging_mashing_water_flow < 50
LowFlow == 50

\* ------------------------------------------------------------------------
\* Flow derivation
\* ------------------------------------------------------------------------
\* Mutation of NegDiffFilled: the sign flip is lost.
DiffFilled(df) ==
    LET d == Diff(Column(df, "greast_case_weight"))
    IN  [i \in 1..Len(df) |-> FillNa(d[i], 0)]

\* -batch_mashing['greast_case_weight'].diff().fillna(0)
NegDiffFilled(df) ==
    LET d == Diff(Column(df, "greast_case_weight"))
    IN  [i \in 1..Len(df) |-> Neg(FillNa(d[i], 0))]

\* detect_phases_new: .apply(lambda x: max(x, 0))
GristFlowNew(df) ==
    LET g == NegDiffFilled(df)
    IN  [i \in 1..Len(df) |-> PyMax(g[i], 0)]

\* detect_phases: .clip(lower=0)
GristFlowOld(df) ==
    LET g == NegDiffFilled(df)
    IN  [i \in 1..Len(df) |-> ClipLower(g[i], 0)]

\* The function's private copy of the frame, with the derived column added.
WithGristFlow(df, g) ==
    [i \in 1..Len(df) |->
        [minutes |-> df[i].minutes,
         greast_case_weight |-> df[i].greast_case_weight,
         sparging_mashing_water_flow |-> df[i].sparging_mashing_water_flow,
         mashing_temp |-> df[i].mashing_temp,
         mashing_sparging_water_temp |-> df[i].mashing_sparging_water_temp,
         grist_flow |-> g[i]]]

\* Mutation of AssignOnCopy: without the copy the parameter still names the
\* caller's frame, and the column assignment lands in it.
AssignInPlace(caller_frame, new_frame) == [caller |-> new_frame, own |-> new_frame]

\* data = data.copy(); data[col] = ...: the parameter is rebound to a private
\* copy before a column is assigned, so the assignment builds new_frame as the
\* function's own frame and the caller's frame keeps its value.
AssignOnCopy(caller_frame, new_frame) == [caller |-> caller_frame, own |-> new_frame]

\* Boolean-mask selections used by the scans
\* Mutation of RowsFrom: the row at t itself is left out.
RowsFromStrict(df, t) == SelectSeq(df, LAMBDA r : Gt(r.minutes, t))

RowsFrom(df, t) == SelectSeq(df, LAMBDA r : Ge(r.minutes, t))

\* Mutation of RowsAfter: the boundary sample is kept (>= for >).
RowsAfterInclusive(df, t) == SelectSeq(df, LAMBDA r : Ge(r.minutes, t))

RowsAfter(df, t) == SelectSeq(df, LAMBDA r : Gt(r.minutes, t))

\* Mutation of GristAbove: the comparison is not strict.
GristAtOrAbove(df, k) == SelectSeq(df, LAMBDA r : Ge(r.grist_flow, k))

GristAbove(df, k) == SelectSeq(df, LAMBDA r : Gt(r.grist_flow, k))

\* Mutation of FlowAbove: the comparison is turned round.
FlowAboveAsBelow(df, k) == SelectSeq(df, LAMBDA r : Lt(r.sparging_mashing_water_flow, k))

FlowAbove(df, k) == SelectSeq(df, LAMBDA r : Gt(r.sparging_mashing_water_flow, k))

FlowBelow(df, k) == SelectSeq(df, LAMBDA r : Lt(r.sparging_mashing_water_flow, k))

\* high_flow_data[high_flow_data['minutes'].diff() > k]
GapRows(df, k) ==
    LET gap == Diff(Column(df, "minutes"))
        keep == {i \in 1..Len(df) : Gt(gap[i], k)}
        RECURSIVE Pick(_)
        Pick(i) == IF i > Len(df) THEN <<>>
                   ELSE (IF i \in keep THEN <<df[i]>> ELSE <<>>) \o Pick(i + 1)
    IN  Pick(1)

\* ------------------------------------------------------------------------
\* detect_phases_new: the end of each phase, given the frame with its derived
\* grist_flow column, the phase's start and the batch's first / last minute
\* ------------------------------------------------------------------------
\* Mutation of P1EndNew: the last active sample is taken, not the first.
P1EndNewLast(df, process_start) ==
    LET grist_starts == GristAbove(df, GristThresholdNew)
    IN  IF Len(grist_starts) # 0
        THEN IlocLast(Column(grist_starts, "minutes"))
        ELSE Val(Add(process_start, 5))

\* PHASE 1: Water Pre-Fill
P1EndNew(df, process_start) ==
    LET grist_starts == GristAbove(df, GristThresholdNew)
    IN  IF Len(grist_starts) # 0
        THEN IlocFirst(Column(grist_starts, "minutes"))
        ELSE Val(Add(process_start, 5))

\* Mutation of P2EndNew: the minimum-weight sample is consulted first, the
\* last active sample never.
P2EndNewMinFirst(df, p2_start) ==
    IF Len(RowsFrom(df, p2_start)) # 0
    THEN LocMinutes(df, IdxMin(Column(df, "greast_case_weight")))
    ELSE Val(Add(p2_start, 10))

\* PHASE 2: Grist Addition
P2EndNew(df, p2_start) ==
    LET grist_data == RowsFrom(df, p2_start)
        grist_active == GristAbove(grist_data, GristThresholdNew)
        last_grist_time == IlocLast(Column(grist_active, "minutes"))
        min_grist_idx == IdxMin(Column(df, "greast_case_weight"))
    IN  IF Len(grist_data) # 0
        THEN IF Len(grist_active) # 0
             THEN IF last_grist_time.exc # "none" THEN last_grist_time
                  ELSE Val(Add(last_grist_time.v, 1))
             ELSE LocMinutes(df, min_grist_idx)
        ELSE Val(Add(p2_start, 10))

\* Mutation of P3EndNew: the first high-flow sample is read without the
\* emptiness test, so there is no fallback window.
P3EndNewUnguarded(df, p3_start, process_end) ==
    IlocFirst(Column(FlowAbove(RowsAfter(df, p3_start), HighFlowNew), "minutes"))

\* PHASE 3: Resting (Saccharification)
P3EndNew(df, p3_start, process_end) ==
    LET post_grist == RowsAfter(df, p3_start)
        sparge_starts == FlowAbove(post_grist, HighFlowNew)
    IN  IF Len(sparge_starts) # 0
        THEN IlocFirst(Column(sparge_starts, "minutes"))
        ELSE Val(PyMin(Add(p3_start, 60), process_end))

\* Mutation of P4EndNew: the sparge window opens strictly after its start.
P4EndNewAfterStart(df, p4_start, process_end) ==
    LET sparge_data == RowsAfter(df, p4_start)
        high_flow_data == FlowAbove(sparge_data, HighFlowNew)
        gaps == GapRows(high_flow_data, 3)
        flow_data == RowsAfter(sparge_data, IlocFirst(Column(high_flow_data, "minutes")).v)
        low_flow == FlowBelow(flow_data, LowFlow)
    IN  IF Len(high_flow_data) # 0
        THEN IF Len(gaps) # 0
             THEN Val(Sub(IlocFirst(Column(gaps, "minutes")).v, 1))
             ELSE IF Len(low_flow) # 0
                  THEN IlocFirst(Column(low_flow, "minutes"))
                  ELSE Val(Add(IlocLast(Column(high_flow_data, "minutes")).v, 2))
        ELSE Val(PyMin(Add(p4_start, 15), process_end))

\* PHASE 4: Sparge
P4EndNew(df, p4_start, process_end) ==
    LET sparge_data == RowsFrom(df, p4_start)
        high_flow_data == FlowAbove(sparge_data, HighFlowNew)
        gaps == GapRows(high_flow_data, 3)
        first_gap == IlocFirst(Column(gaps, "minutes"))
        first_high == IlocFirst(Column(high_flow_data, "minutes"))
        last_high == IlocLast(Column(high_flow_data, "minutes"))
        flow_data == RowsAfter(sparge_data, first_high.v)
        low_flow == FlowBelow(flow_data, LowFlow)
    IN  IF Len(high_flow_data) # 0
        THEN IF Len(gaps) # 0
             THEN IF first_gap.exc # "none" THEN first_gap
                  ELSE Val(Sub(first_gap.v, 1))
             ELSE IF first_high.exc # "none" THEN first_high
                  ELSE IF Len(low_flow) # 0
                       THEN IlocFirst(Column(low_flow, "minutes"))
                       ELSE IF last_high.exc # "none" THEN last_high
                            ELSE Val(Add(last_high.v, 2))
        ELSE Val(PyMin(Add(p4_start, 15), process_end))

\* Mutation of P5EndNew: the fallback window is the alternative method's 40
\* minutes.
P5EndNewWindow40(df, p5_start, process_end) ==
    LET second_sparge == FlowAbove(RowsAfter(df, p5_start), HighFlowNew)
    IN  IF Len(second_sparge) # 0
        THEN Val(Sub(IlocFirst(Column(second_sparge, "minutes")).v, 1))
        ELSE Val(PyMin(Add(p5_start, 40), process_end))

\* PHASE 5: First Wort Collection
P5EndNew(df, p5_start, process_end) ==
    LET post_sparge == RowsAfter(df, p5_start)
        second_sparge == FlowAbove(post_sparge, HighFlowNew)
        first_second == IlocFirst(Column(second_sparge, "minutes"))
    IN  IF Len(second_sparge) # 0
        THEN IF first_second.exc # "none" THEN first_second
             ELSE Val(Sub(first_second.v, 1))
        ELSE Val(PyMin(Add(p5_start, 30), process_end))

\* Mutation of P6EndNew: the low-flow sample is looked for in the whole batch.
P6EndNewAnyLow(df, p6_start, process_end) ==
    LET high_flow_p6 == FlowAbove(RowsFrom(df, p6_start), HighFlowNew)
        low_flow == FlowBelow(df, LowFlow)
    IN  IF Len(high_flow_p6) # 0
        THEN IF Len(low_flow) # 0
             THEN IlocFirst(Column(low_flow, "minutes"))
             ELSE Val(Add(IlocLast(Column(high_flow_p6, "minutes")).v, 5))
        ELSE Val(PyMin(Add(p6_start, 20), process_end))

\* PHASE 6: Second Sparge
P6EndNew(df, p6_start, process_end) ==
    LET post_p5 == RowsFrom(df, p6_start)
        high_flow_p6 == FlowAbove(post_p5, HighFlowNew)
        last_high == IlocLast(Column(high_flow_p6, "minutes"))
        after_sparge == RowsAfter(df, last_high.v)
        low_flow == FlowBelow(after_sparge, LowFlow)
    IN  IF Len(high_flow_p6) # 0
        THEN IF last_high.exc # "none" THEN last_high
             ELSE IF Len(low_flow) # 0
                  THEN IlocFirst(Column(low_flow, "minutes"))
                  ELSE Val(Add(last_high.v, 5))
        ELSE Val(PyMin(Add(p6_start, 20), process_end))

\* phases[k] = {'name': ..., 'start': ..., 'end': ...}; the dict keeps the
\* insertion order of its keys, so the phases are a sequence of entries.
Phase(id, name, start, end) == [id |-> id, name |-> name, start |-> start, end |-> end]

PhaseNames ==
    <<"Water Pre-Fill", "Grist Addition", "Resting", "Sparge",
      "First Wort", "Second Sparge", "Grain Disposal">>

\* Mutation of BuildPhases: phase 3 starts at the end of phase 1.
BuildPhasesStale(process_start, e, process_end) ==
    [k \in 1..7 |->
        Phase(k, PhaseNames[k],
              IF k = 1 THEN process_start ELSE IF k = 3 THEN e[1] ELSE e[k - 1],
              IF k = 7 THEN process_end ELSE e[k])]

\* The seven entries built from the six computed ends; p7_end = process_end.
BuildPhases(process_start, e, process_end) ==
    [k \in 1..7 |->
        Phase(k, PhaseNames[k],
              IF k = 1 THEN process_start ELSE e[k - 1],
              IF k = 7 THEN process_end ELSE e[k])]

\* Return value of a segmentation call: the phases, or the exception raised.
Returned(ph) == [exc |-> "none", phases |-> ph]

Raised(e) == [exc |-> e, phases |-> <<>>]

\* Phases 1 to 7 of detect_phases_new, computed from the private frame df
\* (with its grist_flow column) and the batch's first and last minute.
SegmentNew(df, process_start, process_end) ==
    LET r1 == P1EndNew(df, process_start)
        r2 == P2EndNew(df, r1.v)
        r3 == P3EndNew(df, r2.v, process_end)
        r4 == P4EndNew(df, r3.v, process_end)
        r5 == P5EndNew(df, r4.v, process_end)
        r6 == P6EndNew(df, r5.v, process_end)
    IN  IF r1.exc # "none" THEN Raised(r1.exc)
        ELSE IF r2.exc # "none" THEN Raised(r2.exc)
        ELSE IF r3.exc # "none" THEN Raised(r3.exc)
        ELSE IF r4.exc # "none" THEN Raised(r4.exc)
        ELSE IF r5.exc # "none" THEN Raised(r5.exc)
        ELSE IF r6.exc # "none" THEN Raised(r6.exc)
        ELSE Returned(BuildPhases(process_start,
                                  <<r1.v, r2.v, r3.v, r4.v, r5.v, r6.v>>,
                                  process_end))

detect_phases_new(batch_mashing) ==
    LET process_start == SeriesMin(Column(batch_mashing, "minutes"))
        process_end == SeriesMax(Column(batch_mashing, "minutes"))
        df == WithGristFlow(batch_mashing, GristFlowNew(batch_mashing))
    IN  SegmentNew(df, process_start, process_end)

\* ------------------------------------------------------------------------
\* detect_phases (alternative method, src/v3.py)
\* ------------------------------------------------------------------------
\* Phase 1: Water Pre-Fill
P1EndOld(df, process_start) ==
    LET grist_starts == GristAbove(df, GristThresholdOld)
    IN  IF Len(grist_starts) # 0
        THEN IlocFirst(Column(grist_starts, "minutes"))
        ELSE Val(Add(process_start, 5))

\* Phase 2: Grist Addition (initial_grist is read with .iloc[0] first)
P2EndOld(df) ==
    LET initial_grist == IlocFirst(Column(df, "greast_case_weight"))
        min_grist_idx == IdxMin(Column(df, "greast_case_weight"))
    IN  IF initial_grist.exc # "none" THEN initial_grist
        ELSE LocMinutes(df, min_grist_idx)

\* Phase 3: Resting
P3EndOld(df, p3_start) ==
    LET post_grist == RowsAfter(df, p3_start)
        high_flow == FlowAbove(post_grist, HighFlowOld)
    IN  IF Len(high_flow) # 0
        THEN IlocFirst(Column(high_flow, "minutes"))
        ELSE Val(Add(p3_start, 45))

\* Phase 4: Sparge
P4EndOld(df, p4_start) ==
    LET sparge_data == RowsFrom(df, p4_start)
        high_flow_data == FlowAbove(sparge_data, HighFlowOld)
        gaps == GapRows(high_flow_data, 5)
        first_gap == IlocFirst(Column(gaps, "minutes"))
        last_high == IlocLast(Column(high_flow_data, "minutes"))
    IN  IF Len(high_flow_data) # 0
        THEN IF Len(gaps) # 0
             THEN IF first_gap.exc # "none" THEN first_gap
                  ELSE Val(Sub(first_gap.v, 2))
             ELSE IF last_high.exc # "none" THEN last_high
                  ELSE Val(Add(last_high.v, 2))
        ELSE Val(Add(p4_start, 20))

\* Phase 5: First Wort Collection
P5EndOld(df, p5_start, process_end) ==
    LET post_sparge1 == RowsAfter(df, p5_start)
        second_sparge == FlowAbove(post_sparge1, HighFlowOld)
        first_second == IlocFirst(Column(second_sparge, "minutes"))
    IN  IF Len(second_sparge) # 0
        THEN IF first_second.exc # "none" THEN first_second
             ELSE Val(Sub(first_second.v, 2))
        ELSE Val(PyMin(Add(p5_start, 40), process_end))

\* Phase 6: Second Sparge
P6EndOld(df, p6_start, process_end) ==
    LET post_p5 == RowsFrom(df, p6_start)
        high_flow_p6 == FlowAbove(post_p5, HighFlowOld)
        last_high == IlocLast(Column(high_flow_p6, "minutes"))
    IN  IF Len(high_flow_p6) # 0
        THEN IF last_high.exc # "none" THEN last_high
             ELSE Val(Add(last_high.v, 5))
        ELSE Val(PyMin(Add(p6_start, 30), process_end))

\* Phases 1 to 7 of detect_phases, computed from the private frame df.
SegmentOld(df, process_start, process_end) ==
    LET r1 == P1EndOld(df, process_start)
        r2 == P2EndOld(df)
        r3 == P3EndOld(df, r2.v)
        r4 == P4EndOld(df, r3.v)
        r5 == P5EndOld(df, r4.v, process_end)
        r6 == P6EndOld(df, r5.v, process_end)
    IN  IF r1.exc # "none" THEN Raised(r1.exc)
        ELSE IF r2.exc # "none" THEN Raised(r2.exc)
        ELSE IF r3.exc # "none" THEN Raised(r3.exc)
        ELSE IF r4.exc # "none" THEN Raised(r4.exc)
        ELSE IF r5.exc # "none" THEN Raised(r5.exc)
        ELSE IF r6.exc # "none" THEN Raised(r6.exc)
        ELSE Returned(BuildPhases(process_start,
                                  <<r1.v, r2.v, r3.v, r4.v, r5.v, r6.v>>,
                                  process_end))

\* Mutation of detect_phases: the alternative method is the main method.
detect_phases_unified(batch_mashing) == detect_phases_new(batch_mashing)

detect_phases(batch_mashing) ==
    LET process_start == SeriesMin(Column(batch_mashing, "minutes"))
        process_end == SeriesMax(Column(batch_mashing, "minutes"))
        df == WithGristFlow(batch_mashing, GristFlowOld(batch_mashing))
    IN  SegmentOld(df, process_start, process_end)

\* ------------------------------------------------------------------------
\* Batches handed to the segmentation
\* ------------------------------------------------------------------------
\* Minutes between two consecutive samples
Gaps == {1, 4, 70}

\* Change of greast_case_weight between two consecutive samples (tenths of kg):
\* flat, a draw of 5 kg, a draw of 20 kg, a refill of 5 kg
Deltas == {0, -50, -200, 50}

\* sparging_mashing_water_flow: idle, neither low nor high, high for
\* detect_phases_new only, high for both variants
Flows == {0, 100, 250, 400}

Sample(m, w, f) ==
    [minutes |-> m, greast_case_weight |-> w, sparging_mashing_water_flow |-> f,
     mashing_temp |-> 65, mashing_sparging_water_temp |-> 20]

\* The frames plot_single_batch and the Phase Analysis page build: sorted by
\* timestamp, minutes counted from the first sample.  The frame of n samples
\* with gaps gs and weight changes ds between consecutive samples, flows fs.
RECURSIVE SumUpTo(_, _)
SumUpTo(f, i) == IF i < 2 THEN 0 ELSE f[i] + SumUpTo(f, i - 1)

BatchOf(n, gs, ds, fs) ==
    [i \in 1..n |-> Sample(SumUpTo(gs, i), 1000 + SumUpTo(ds, i), fs[i])]

NoReturn == [exc |-> "none", phases |-> <<>>]

\* ------------------------------------------------------------------------
\* State machine: one frame, and the calls made on it
\* ------------------------------------------------------------------------
Init ==
    /\ \E n \in 0..MaxLen :
        \E gs \in [2..n -> Gaps], ds \in [2..n -> Deltas], fs \in [1..n -> Flows] :
            batch = BatchOf(n, gs, ds, fs)
    /\ called = "none"
    /\ ret = NoReturn
    /\ local = <<>>
    /\ pool = <<>>
    /\ session_state = <<>>
    /\ files = <<>>

\* phases = detect_phases_new(batch_mashing)
CallDetectPhasesNew ==
    /\ called' = "detect_phases_new"
    /\ ret' = detect_phases_new(batch)
    /\ local' = AssignOnCopy(batch, WithGristFlow(batch, GristFlowNew(batch))).own
    /\ batch' = AssignOnCopy(batch, WithGristFlow(batch, GristFlowNew(batch))).caller
    /\ UNCHANGED <<pool, session_state, files>>

\* phases = detect_phases(batch_mashing)
CallDetectPhases ==
    /\ called' = "detect_phases"
    /\ ret' = detect_phases(batch)
    /\ local' = AssignOnCopy(batch, WithGristFlow(batch, GristFlowOld(batch))).own
    /\ batch' = AssignOnCopy(batch, WithGristFlow(batch, GristFlowOld(batch))).caller
    /\ UNCHANGED <<pool, session_state, files>>

Next == CallDetectPhasesNew \/ CallDetectPhases

Spec == Init /\ [][Next]_vars

\* The same machine restricted to detect_phases_new, over the frames whose
\* signals are enough to separate its scans: idle / medium / high water flow,
\* flat or falling weight.
ScanFlows == {0, 100, 400}

ScanDeltas == {0, -50}

InitScan ==
    /\ \E n \in 0..MaxLen :
        \E gs \in [2..n -> Gaps], ds \in [2..n -> ScanDeltas], fs \in [1..n -> ScanFlows] :
            batch = BatchOf(n, gs, ds, fs)
    /\ called = "none"
    /\ ret = NoReturn
    /\ local = <<>>
    /\ pool = <<>>
    /\ session_state = <<>>
    /\ files = <<>>

NextScan == CallDetectPhasesNew

SpecScan == InitScan /\ [][NextScan]_vars

\* ------------------------------------------------------------------------
\* Properties of the segmentation
\* ------------------------------------------------------------------------
Segmented == called \in {"detect_phases_new", "detect_phases"}

\* The batch's last elapsed minute (the frame is sorted by timestamp).
LastMinute == batch[Len(batch)].minutes

\* C1: for a non-empty batch whose minutes start at 0, the returned phases are
\* anchored and contiguous: phase 1 starts at 0, every phase ends where the next
\* one starts, and phase 7 ends at the batch's last elapsed minute.
C1_ContiguousAnchored ==
    (Segmented /\ Len(batch) > 0 /\ batch[1].minutes = 0 /\ ret.exc = "none") =>
        /\ Len(ret.phases) = 7
        /\ ret.phases[1].start = 0
        /\ \A i \in 1..6 : ret.phases[i].end = ret.phases[i + 1].start
        /\ ret.phases[7].end = LastMinute

\* A batch with grist and sparge activity has been segmented, by either variant.
C1_Witness ==
    /\ Len(batch) = MaxLen
    /\ ret.exc = "none"
    /\ Len(ret.phases) = 7
    /\ \E v \in {"detect_phases_new", "detect_phases"} :
        /\ called = v
        /\ ret.phases[1].end = batch[2].minutes
        /\ ret.phases[3].end = batch[3].minutes
        /\ ret.phases[7].end = LastMinute

\* C2 (as claimed): no returned phase has a negative length.
C2_Monotone ==
    (Segmented /\ Len(batch) > 0 /\ ret.exc = "none") =>
        \A i \in 1..Len(ret.phases) : ret.phases[i].end >= ret.phases[i].start

\* C3: a non-empty batch never makes the segmentation raise, and the result
\* has exactly the 7 phases 1..7, in this order.
C3_SevenPhasesNoRaise ==
    (Segmented /\ Len(batch) > 0) =>
        /\ ret.exc = "none"
        /\ Len(ret.phases) = 7
        /\ \A i \in 1..7 : ret.phases[i].id = i

\* A signal-free batch (no weight change, no water flow) has been segmented.
C3_Witness ==
    /\ Segmented
    /\ Len(batch) = MaxLen
    /\ \A i \in 1..Len(batch) :
        /\ batch[i].sparging_mashing_water_flow = 0
        /\ batch[i].greast_case_weight = batch[1].greast_case_weight
    /\ Len(ret.phases) = 7

\* C4 (as claimed): no phase boundary lies beyond the batch's last minute (nor
\* before its first), so the 7 intervals partition [0, last minute].
C4_CappedAtBatchEnd ==
    (Segmented /\ Len(batch) > 0 /\ ret.exc = "none") =>
        \A i \in 1..Len(ret.phases) :
            /\ ret.phases[i].start >= 0 /\ ret.phases[i].start <= LastMinute
            /\ ret.phases[i].end >= 0 /\ ret.phases[i].end <= LastMinute

\* C5 (as claimed): segmenting a batch with zero samples ends in an error; no
\* phase list comes back for an empty batch.
C5_EmptyBatchFails ==
    (Segmented /\ Len(batch) = 0) => (ret.exc # "none" /\ Len(ret.phases) = 0)

\* C6: in the frame the segmentation works on, the addition rate of the first
\* sample is 0, the rate of every later sample is the weight drop since the
\* previous sample, or 0 when the weight did not drop, and no rate is negative.
C6_FlowDerivation ==
    (Segmented /\ Len(batch) > 0) =>
        /\ Len(local) = Len(batch)
        /\ local[1].grist_flow = 0
        /\ \A i \in 2..Len(batch) :
            LET drop == batch[i - 1].greast_case_weight - batch[i].greast_case_weight
            IN  local[i].grist_flow = IF drop > 0 THEN drop ELSE 0
        /\ \A i \in 1..Len(batch) : local[i].grist_flow >= 0

\* A batch whose weight first rises and then falls has been segmented.
C6_Witness ==
    /\ Segmented
    /\ Len(batch) >= 3
    /\ batch[2].greast_case_weight > batch[1].greast_case_weight
    /\ batch[3].greast_case_weight < batch[2].greast_case_weight
    /\ local[2].grist_flow = 0
    /\ local[3].grist_flow > 0

\* ------------------------------------------------------------------------
\* calculate_heat_available
\* ------------------------------------------------------------------------
\* cp_water = 4.18, in hundredths
cp_water == 418

\* rho_water = 1.0
rho_water == 1

\* pd.notna
PdNotNa(x) == NotNa(x)

\* Mutation of HeatQ: the water temperature is read from row i, not row i - 1.
HeatQSameRow(data, i) ==
    LET T_initial == data[i].mashing_sparging_water_temp
        T_final == data[i].mashing_temp
        flow_prev == data[i - 1].sparging_mashing_water_flow
        mass_prev == Mul(rho_water, flow_prev)
        delta_T == IF PdNotNa(T_initial) /\ PdNotNa(T_final)
                   THEN T_final - T_initial ELSE 0
    IN  Mul(Mul(mass_prev, cp_water), delta_T)

\* One pass of the loop body for row i (i >= 2; range(1, len(data)) is 0-based):
\* the value stored in heat_available, in units of 1/6000.
HeatQ(data, i) ==
    LET T_initial == data[i - 1].mashing_sparging_water_temp
        T_final == data[i].mashing_temp
        flow_prev == data[i - 1].sparging_mashing_water_flow
        mass_prev == Mul(rho_water, flow_prev)
        delta_T == IF PdNotNa(T_initial) /\ PdNotNa(T_final)
                   THEN T_final - T_initial ELSE 0
    IN  Mul(Mul(mass_prev, cp_water), delta_T)

\* data = data.copy(); data['heat_available'] = 0.0; the loop; return data
calculate_heat_available(data) ==
    [exc |-> "none",
     data |-> [i \in 1..Len(data) |->
        [minutes |-> data[i].minutes,
         greast_case_weight |-> data[i].greast_case_weight,
         sparging_mashing_water_flow |-> data[i].sparging_mashing_water_flow,
         mashing_temp |-> data[i].mashing_temp,
         mashing_sparging_water_temp |-> data[i].mashing_sparging_water_temp,
         heat_available |-> IF i = 1 THEN 0 ELSE HeatQ(data, i)]]]

\* Frames handed to calculate_heat_available: any cell read from the CSV may
\* be missing.
HeatFlows == {0, 300, NaN}

MashTemps == {65, NaN}

WaterTemps == {20, 70, NaN}

HeatSample(m, f, tm, tw) ==
    [minutes |-> m, greast_case_weight |-> 1000, sparging_mashing_water_flow |-> f,
     mashing_temp |-> tm, mashing_sparging_water_temp |-> tw]

HeatFrameOf(n, fs, tms, tws) ==
    [i \in 1..n |-> HeatSample(i - 1, fs[i], tms[i], tws[i])]

InitHeat ==
    /\ \E n \in 0..MaxHeatLen :
        \E fs \in [1..n -> HeatFlows], tms \in [1..n -> MashTemps],
           tws \in [1..n -> WaterTemps] :
            batch = HeatFrameOf(n, fs, tms, tws)
    /\ called = "none"
    /\ ret = [exc |-> "none", data |-> <<>>]
    /\ local = <<>>
    /\ pool = <<>>
    /\ session_state = <<>>
    /\ files = <<>>

\* phase_data = calculate_heat_available(phase_data)
CallCalculateHeatAvailable ==
    /\ called' = "calculate_heat_available"
    /\ ret' = calculate_heat_available(batch)
    /\ local' = AssignOnCopy(batch, calculate_heat_available(batch).data).own
    /\ batch' = AssignOnCopy(batch, calculate_heat_available(batch).data).caller
    /\ UNCHANGED <<pool, session_state, files>>

NextHeat == CallCalculateHeatAvailable

SpecHeat == InitHeat /\ [][NextHeat]_vars

HeatDone == called = "calculate_heat_available"

\* C7 (as claimed): when mash_temp[i] or water_temp[i-1] is missing, the heat
\* of sample i is exactly 0, whatever the other cells hold, and no sample is
\* dropped.
C7_ThermalZeroFallback ==
    HeatDone =>
        /\ Len(ret.data) = Len(batch)
        /\ \A i \in 2..Len(batch) :
            (IsNaN(batch[i].mashing_temp) \/ IsNaN(batch[i - 1].mashing_sparging_water_temp))
                => ret.data[i].heat_available = 0

\* C8: the call raises nothing and returns one row per input row, in the input
\* order; the first heat is 0, and with both temperatures present the heat of
\* row i is (water_flow[i-1] / 60) * 4.18 * (mash_temp[i] - water_temp[i-1])
\* (in units of 1/6000: flow * 418 * dT); flow 300, water 20, mash 65 give 940.5.
C8_ThermalFlux ==
    (HeatDone /\ Len(batch) > 0) =>
        /\ ret.exc = "none"
        /\ Len(ret.data) = Len(batch)
        /\ \A i \in 1..Len(batch) :
            /\ ret.data[i].minutes = batch[i].minutes
            /\ ret.data[i].sparging_mashing_water_flow = batch[i].sparging_mashing_water_flow
            /\ ret.data[i].mashing_temp = batch[i].mashing_temp
        /\ ret.data[1].heat_available = 0
        /\ \A i \in 2..Len(batch) :
            LET f == batch[i - 1].sparging_mashing_water_flow
                tw == batch[i - 1].mashing_sparging_water_temp
                tm == batch[i].mashing_temp
            IN  (tw # NaN /\ tm # NaN) =>
                    /\ f # NaN => ret.data[i].heat_available = f * 418 * (tm - tw)
                    /\ f = NaN => ret.data[i].heat_available = NaN
                    /\ (f = 300 /\ tw = 20 /\ tm = 65) =>
                            6000 * 9405 = ret.data[i].heat_available * 10

\* The literal scenario has been computed: 940.5 at the second row.
C8_Witness ==
    /\ HeatDone
    /\ Len(batch) >= 2
    /\ batch[1].sparging_mashing_water_flow = 300
    /\ batch[1].mashing_sparging_water_temp = 20
    /\ batch[2].mashing_temp = 65
    /\ ret.data[2].heat_available = 5643000

\* ------------------------------------------------------------------------
\* Which samples a forward scan of detect_phases_new depends on
\* ------------------------------------------------------------------------
\* The end of phase k (2..6) as detect_phases_new computes it from the frame
\* df and the phase's start.
PhaseEndNew(k, df, start, process_end) ==
    CASE k = 2 -> P2EndNew(df, start)
      [] k = 3 -> P3EndNew(df, start, process_end)
      [] k = 4 -> P4EndNew(df, start, process_end)
      [] k = 5 -> P5EndNew(df, start, process_end)
      [] k = 6 -> P6EndNew(df, start, process_end)

\* The frames that differ from df in the signals of row i only (same minutes).
Rewrites(df, i) ==
    {[df EXCEPT ![i] = [@ EXCEPT !.sparging_mashing_water_flow = f,
                                 !.grist_flow = g,
                                 !.greast_case_weight = w]] :
        f \in Flows, g \in {0, 50, 200}, w \in {df[i].greast_case_weight, 0}}

\* Row i has no influence on the end of phase k: whatever its signals are
\* replaced by, the end computed from the same start is the same.
NoInfluence(k, df, i, start, process_end) ==
    \A d2 \in Rewrites(df, i) :
        PhaseEndNew(k, d2, start, process_end) = PhaseEndNew(k, df, start, process_end)

SegmentedNew == called = "detect_phases_new" /\ Len(batch) > 0 /\ ret.exc = "none"

\* Phase 2 ends by its primary rule: some row at or after its start is active.
P2Primary(df, start) == Len(GristAbove(RowsFrom(df, start), GristThresholdNew)) # 0

\* C10 (as claimed): a sample at or before the start of a phase (2..6) never
\* influences the end computed for that phase.
C10_ScansStrictlyAfter ==
    SegmentedNew =>
        \A k \in 2..6 : \A i \in 1..Len(local) :
            local[i].minutes <= ret.phases[k].start =>
                NoInfluence(k, local, i, ret.phases[k].start, LastMinute)

\* C10 (amended): a sample strictly before the start of a phase never
\* influences the end of phases 3, 4, 5 and 6, nor the end of phase 2 when
\* phase 2 ends by its primary rule; the sample at the start itself never
\* influences the end of phases 3 and 5.
C10_ScansFromBoundary ==
    SegmentedNew =>
        \A k \in 2..6 : \A i \in 1..Len(local) :
            LET start == ret.phases[k].start
            IN  /\ (local[i].minutes < start /\ (k = 2 => P2Primary(local, start)))
                        => NoInfluence(k, local, i, start, LastMinute)
                /\ (local[i].minutes = start /\ k \in {3, 5})
                        => NoInfluence(k, local, i, start, LastMinute)

\* Phase 4 starts at a detected high-flow sample while an earlier sample, before
\* that start, carries high flow as well.
C10_Witness ==
    /\ SegmentedNew
    /\ Len(batch) = 3
    /\ batch[1].sparging_mashing_water_flow = 400
    /\ batch[2].sparging_mashing_water_flow = 400
    /\ batch[2].minutes > 0
    /\ ret.phases[4].start = batch[2].minutes
    /\ ret.phases[5].start < batch[3].minutes

\* ------------------------------------------------------------------------
\* Fallback windows of detect_phases_new
\* ------------------------------------------------------------------------
NoWaterFlow == \A i \in 1..Len(batch) : batch[i].sparging_mashing_water_flow = 0

NoActiveSample == \A i \in 1..Len(local) : local[i].grist_flow <= 5

\* start + window, capped at the batch's last minute
Window(start, w) == IF start + w < LastMinute THEN start + w ELSE LastMinute

\* Elapsed minute of the first sample carrying the minimum weight
MinWeightMinute ==
    LET i == CHOOSE i \in 1..Len(batch) :
                /\ \A j \in 1..Len(batch) :
                    batch[i].greast_case_weight <= batch[j].greast_case_weight
                /\ \A j \in 1..(i - 1) :
                    batch[j].greast_case_weight > batch[i].greast_case_weight
    IN  batch[i].minutes

\* Ends of phases 3 to 6 are the fallback windows 60, 15, 30 and 20.
WindowEnds36 ==
    /\ ret.phases[3].end = Window(ret.phases[3].start, 60)
    /\ ret.phases[4].end = Window(ret.phases[4].start, 15)
    /\ ret.phases[5].end = Window(ret.phases[5].start, 30)
    /\ ret.phases[6].end = Window(ret.phases[6].start, 20)

\* Ends of phases 1 and 2 are their fallbacks: start + 5, then the minimum
\* weight sample, or start + 10 when the batch ends before phase 2 starts.
FallbackEnds12 ==
    /\ ret.phases[1].end = batch[1].minutes + 5
    /\ ret.phases[2].end = IF LastMinute >= ret.phases[2].start
                           THEN MinWeightMinute
                           ELSE ret.phases[2].start + 10

\* C11 (as claimed): on a non-empty batch without any water flow the result
\* has 7 phases, every phase end is the fallback of its phase, and phase 7
\* ends at the batch's last minute.
C11_NoSignalAllFallbacks ==
    (SegmentedNew /\ NoWaterFlow) =>
        /\ Len(ret.phases) = 7
        /\ FallbackEnds12
        /\ WindowEnds36
        /\ ret.phases[7].end = LastMinute

\* C11 (amended): on a non-empty batch without any water flow the result has
\* 7 phases, the ends of phases 3 to 6 are their fallback windows, phase 7
\* ends at the last minute, and the ends of phases 1 and 2 are their fallbacks
\* when no sample has an addition rate above 0.5 either.
C11_NoSignalFallback ==
    (SegmentedNew /\ NoWaterFlow) =>
        /\ Len(ret.phases) = 7
        /\ NoActiveSample => FallbackEnds12
        /\ WindowEnds36
        /\ ret.phases[7].end = LastMinute

\* A long batch without water flow whose weight falls has been segmented; its
\* phase 3 window is cut at the batch end.
C11_Witness ==
    /\ SegmentedNew
    /\ NoWaterFlow
    /\ Len(batch) = 3
    /\ ~NoActiveSample
    /\ LastMinute > 60
    /\ ret.phases[3].end = LastMinute
    /\ ret.phases[3].start + 60 > LastMinute

\* ------------------------------------------------------------------------
\* Scenario batches: 100 samples at minutes 0..99, the weight falls linearly
\* from 1000 kg between minute 2 and minute 8, water flows during one window
\* ------------------------------------------------------------------------
SpargeStarts == {10, 11, 12, 13}
SpargeEnds == {29, 30, 31, 32}
SpargeFlows == {400, 250}
FinalWeights == {8000, 9000}

\* Weight (tenths of kg) at minute m of a linear fall from 1000 kg to w
RampWeight(m, w) ==
    IF m <= 2 THEN 10000
    ELSE IF m >= 8 THEN w
    ELSE 10000 - (((10000 - w) * (m - 2)) \div 6)

ScenarioBatch(a, b, f, w) ==
    [i \in 1..100 |->
        Sample(i - 1, RampWeight(i - 1, w),
               IF a <= i - 1 /\ i - 1 <= b THEN f ELSE 0)]

InitScenario ==
    /\ \E a \in SpargeStarts, b \in SpargeEnds, f \in SpargeFlows,
          w \in FinalWeights :
          batch = ScenarioBatch(a, b, f, w)
    /\ called = "none"
    /\ ret = NoReturn
    /\ local = <<>>
    /\ pool = <<>>
    /\ session_state = <<>>
    /\ files = <<>>

NextScenario == CallDetectPhasesNew \/ CallDetectPhases

SpecScenario == InitScenario /\ [][NextScenario]_vars

LiteralBatch == ScenarioBatch(10, 30, 400, 8000)

Near(x, m) == m - 1 <= x /\ x <= m + 1

\* C12: on the literal batch (flow 400 during minutes 10..30, weight falling
\* from 1000 to 800 between minutes 2 and 8) phase 1 ends about minute 2,
\* phase 2 about minute 8, phase 3 about minute 10, phase 4 at minute 30 or
\* slightly after, phases 5 and 6 by their fixed windows, phase 7 at 99.
C12_LiteralScenario ==
    (called = "detect_phases_new" /\ batch = LiteralBatch) =>
        /\ ret.exc = "none"
        /\ Len(ret.phases) = 7
        /\ Near(ret.phases[1].end, 2)
        /\ Near(ret.phases[2].end, 8)
        /\ Near(ret.phases[3].end, 10)
        /\ ret.phases[4].end \in 30..32
        /\ ret.phases[5].end = Window(ret.phases[5].start, 30)
        /\ ret.phases[6].end = Window(ret.phases[6].start, 20)
        /\ ret.phases[7].end = 99

\* The literal batch has been segmented.
C12_Witness ==
    /\ called = "detect_phases_new"
    /\ batch = LiteralBatch
    /\ Len(batch) = 100
    /\ ret.phases[4].end = 31
    /\ ret.phases[6].end = 81

\* ------------------------------------------------------------------------
\* Batches whose rates and flows sit exactly on the thresholds
\* ------------------------------------------------------------------------
ThrGaps == {1, 70}
ThrDeltas == {0, -5, -100, -200}
ThrFlows == {0, 200, 300, 400}

InitThr ==
    /\ \E n \in 0..MaxLen :
          \E gs \in [2..n -> ThrGaps], ds \in [2..n -> ThrDeltas],
             fs \in [1..n -> ThrFlows] :
              batch = BatchOf(n, gs, ds, fs)
    /\ called = "none"
    /\ ret = NoReturn
    /\ local = <<>>
    /\ pool = <<>>
    /\ session_state = <<>>
    /\ files = <<>>

NextThr == CallDetectPhasesNew \/ CallDetectPhases

SpecThr == InitThr /\ [][NextThr]_vars

\* The frame with every rate equal to g and every flow equal to f moved just
\* below that value.
Lowered(df, g, f) ==
    [i \in 1..Len(df) |->
        [df[i] EXCEPT
            !.grist_flow = IF @ = g THEN g - 1 ELSE @,
            !.sparging_mashing_water_flow = IF @ = f THEN f - 1 ELSE @]]

\* C13: a sample whose addition rate equals the low threshold (0.5, resp. 10)
\* or whose water flow equals the high threshold (200, resp. 300) gives the
\* same phases as a sample just below the threshold.
C13_StrictThresholds ==
    /\ called = "detect_phases_new" =>
          ret = SegmentNew(Lowered(local, 5, 200),
                           SeriesMin(Column(batch, "minutes")),
                           SeriesMax(Column(batch, "minutes")))
    /\ called = "detect_phases" =>
          ret = SegmentOld(Lowered(local, 100, 300),
                           SeriesMin(Column(batch, "minutes")),
                           SeriesMax(Column(batch, "minutes")))

\* A batch whose only weight drop is exactly 0.5 and whose only flow is exactly
\* 200 has been segmented: phase 1 ends by its offset, phase 3 by its window.
C13_Witness ==
    /\ called = "detect_phases_new"
    /\ Len(batch) = 3
    /\ local[2].grist_flow = 5
    /\ local[3].grist_flow = 0
    /\ batch[3].sparging_mashing_water_flow = 200
    /\ batch[1].sparging_mashing_water_flow = 0
    /\ batch[2].sparging_mashing_water_flow = 0
    /\ ret.exc = "none"
    /\ ret.phases[1].end = batch[1].minutes + 5

\* ------------------------------------------------------------------------
\* The three functions called on the caller's frame
\* ------------------------------------------------------------------------
InitPure ==
    /\ \/ \E n \in 0..MaxLen :
             \E gs \in [2..n -> Gaps], ds \in [2..n -> ScanDeltas],
                fs \in [1..n -> ScanFlows] :
                 batch = BatchOf(n, gs, ds, fs)
       \/ \E n \in 0..MaxHeatLen :
             \E fs \in [1..n -> HeatFlows], tms \in [1..n -> MashTemps],
                tws \in [1..n -> WaterTemps] :
                 batch = HeatFrameOf(n, fs, tms, tws)
    /\ called = "none"
    /\ ret = NoReturn
    /\ local = <<>>
    /\ pool = <<>>
    /\ session_state = <<>>
    /\ files = <<>>

NextPure ==
    \/ CallDetectPhasesNew
    \/ CallDetectPhases
    \/ CallCalculateHeatAvailable

SpecPure == InitPure /\ [][NextPure]_vars

\* C14: a call of detect_phases_new, detect_phases or
\* calculate_heat_available leaves the caller's batch with the same samples,
\* the same columns and the same values.
C14_ArgumentUnchanged == [][batch' = batch]_vars

\* Each function has run on a three-sample batch: the derived column is on the
\* function's own frame and not on the caller's.
C14_Witness ==
    /\ called \in {"detect_phases_new", "detect_phases"}
    /\ Len(batch) = 3
    /\ batch[3].greast_case_weight < batch[1].greast_case_weight
    /\ "grist_flow" \in DOMAIN local[3]
    /\ "grist_flow" \notin DOMAIN batch[3]
    /\ local[3].grist_flow > 0

\* ------------------------------------------------------------------------
\* A pool of tasks, each segmenting its own batch with detect_phases_new, one
\* phase per step, the steps of the tasks interleaved in any order
\* ------------------------------------------------------------------------
NumTasks == 2

PoolFlows == {0, 400}

\* Three samples four minutes apart, the weight falling at the second one
PoolBatches ==
    {BatchOf(3, [i \in 2..3 |-> 4], [i \in 2..3 |-> IF i = 2 THEN -200 ELSE 0], fs) :
        fs \in [1..3 -> PoolFlows]}

\* A task's locals before its call: phases = {} and no end computed yet
NewTask(b) ==
    [batch |-> b, df |-> <<>>, pc |-> 0, ends |-> [k \in 1..6 |-> NaN],
     ret |-> NoReturn]

\* Mutation of StoreEnd: the ends live in one table shared by all tasks.
StoreEndShared(p, t, k, v) ==
    [u \in DOMAIN p |-> [p[u] EXCEPT !.ends[k] = v, !.pc = IF u = t THEN k + 1 ELSE @]]

\* pk_end = ...; phases[k] = {...}: the end of phase k goes to the task's own
\* locals
StoreEnd(p, t, k, v) == [p EXCEPT ![t].ends[k] = v, ![t].pc = k + 1]

InitPool ==
    /\ batch = <<>>
    /\ called = "none"
    /\ ret = NoReturn
    /\ local = <<>>
    /\ \E bs \in [1..NumTasks -> PoolBatches] :
          pool = [t \in 1..NumTasks |-> NewTask(bs[t])]
    /\ session_state = <<>>
    /\ files = <<>>

\* process_start, process_end, the private copy and its grist_flow column
TaskBegin(t) ==
    /\ pool[t].pc = 0
    /\ pool' = [pool EXCEPT
                  ![t].df = AssignOnCopy(pool[t].batch,
                                WithGristFlow(pool[t].batch,
                                              GristFlowNew(pool[t].batch))).own,
                  ![t].batch = AssignOnCopy(pool[t].batch,
                                WithGristFlow(pool[t].batch,
                                              GristFlowNew(pool[t].batch))).caller,
                  ![t].pc = 1]
    /\ UNCHANGED <<batch, called, ret, local, session_state, files>>

\* The block of phase k = pc: its end from the task's frame and the previous end
TaskPhase(t) ==
    /\ pool[t].pc \in 1..6
    /\ LET k == pool[t].pc
           process_start == SeriesMin(Column(pool[t].batch, "minutes"))
           process_end == SeriesMax(Column(pool[t].batch, "minutes"))
           r == IF k = 1 THEN P1EndNew(pool[t].df, process_start)
                ELSE PhaseEndNew(k, pool[t].df, pool[t].ends[k - 1], process_end)
       IN  IF r.exc # "none"
           THEN pool' = [pool EXCEPT ![t].ret = Raised(r.exc), ![t].pc = 8]
           ELSE pool' = StoreEnd(pool, t, k, r.v)
    /\ UNCHANGED <<batch, called, ret, local, session_state, files>>

\* phases[7] = {...}; return phases
TaskReturn(t) ==
    /\ pool[t].pc = 7
    /\ pool' = [pool EXCEPT
                  ![t].ret = Returned(BuildPhases(
                                 SeriesMin(Column(pool[t].batch, "minutes")),
                                 pool[t].ends,
                                 SeriesMax(Column(pool[t].batch, "minutes")))),
                  ![t].pc = 8]
    /\ UNCHANGED <<batch, called, ret, local, session_state, files>>

NextPool ==
    \E t \in 1..NumTasks : TaskBegin(t) \/ TaskPhase(t) \/ TaskReturn(t)

SpecPool == InitPool /\ [][NextPool]_vars

\* C15: whatever the interleaving, a task that has finished holds the 7 phases
\* that segmenting its batch alone gives.
C15_ConcurrentSameAsAlone ==
    \A t \in DOMAIN pool :
        pool[t].pc = 8 =>
            /\ pool[t].ret = detect_phases_new(pool[t].batch)
            /\ Len(pool[t].ret.phases) = 7

\* Two tasks with different batches have both finished, with different phases.
C15_Witness ==
    /\ DOMAIN pool = 1..NumTasks
    /\ \A t \in DOMAIN pool : pool[t].pc = 8
    /\ pool[1].batch # pool[2].batch
    /\ pool[1].ret.phases # pool[2].ret.phases

\* ------------------------------------------------------------------------
\* The two variants on the same batch
\* ------------------------------------------------------------------------
HasFlowBetweenThresholds ==
    \E i \in 1..Len(batch) :
        /\ batch[i].sparging_mashing_water_flow > 200
        /\ batch[i].sparging_mashing_water_flow <= 300

\* C16: the variants are not equivalent: on the scenario batches detect_phases
\* (rate > 10, flow > 300) returns other phase boundaries than
\* detect_phases_new (rate > 0.5, flow > 200) returns for the same batch.
C16_VariantsDiffer ==
    called = "detect_phases" =>
        /\ ret.exc = "none"
        /\ detect_phases_new(batch).exc = "none"
        /\ \E k \in 1..7 : ret.phases[k].end # detect_phases_new(batch).phases[k].end

\* detect_phases has segmented a batch whose flow of 250 lies between the two
\* high thresholds: its phase 3 ends by the 45-minute window.
C16_Witness ==
    /\ called = "detect_phases"
    /\ Len(batch) = 100
    /\ HasFlowBetweenThresholds
    /\ ret.phases[3].end = ret.phases[3].start + 45
    /\ detect_phases_new(batch).phases[3].end < ret.phases[3].end

\* ------------------------------------------------------------------------
\* Phase 2 of detect_phases_new
\* ------------------------------------------------------------------------
\* Indices of the samples at or after minute t
FromMinute(t) == {i \in 1..Len(local) : local[i].minutes >= t}

\* Indices of the active samples (addition rate above 0.5) at or after minute t
ActiveFrom(t) == {i \in FromMinute(t) : local[i].grist_flow > 5}

LastOf(S) == CHOOSE i \in S : \A j \in S : j <= i

FirstOf(S) == CHOOSE i \in S : \A j \in S : i <= j

\* C17: if a sample at or after phase 2's start is active, phase 2 ends at the
\* time of the last such sample plus 1, wherever the minimum weight lies; the
\* minimum-weight sample gives the end only when there is none.
C17_Phase2FallbackOrder ==
    SegmentedNew =>
        LET start == ret.phases[2].start
        IN  /\ ActiveFrom(start) # {} =>
                  ret.phases[2].end = local[LastOf(ActiveFrom(start))].minutes + 1
            /\ (ActiveFrom(start) = {} /\ FromMinute(start) # {}) =>
                  ret.phases[2].end = MinWeightMinute

\* Phase 2 has ended by its primary rule on a batch whose minimum-weight
\* sample would have given another end.
C17_Witness ==
    /\ SegmentedNew
    /\ Len(batch) = 3
    /\ ActiveFrom(ret.phases[2].start) # {}
    /\ MinWeightMinute # ret.phases[2].end
    /\ MinWeightMinute + 1 # ret.phases[2].end
    /\ ret.phases[2].end = local[LastOf(ActiveFrom(ret.phases[2].start))].minutes + 1

\* ------------------------------------------------------------------------
\* Phase 4 of detect_phases_new
\* ------------------------------------------------------------------------
\* Indices of the high-flow samples (flow above 200) at or after minute t
HighFrom(t) ==
    {i \in FromMinute(t) : local[i].sparging_mashing_water_flow > 200}

\* Indices of the low-flow samples (flow below 50) strictly after minute t
LowAfter(t) ==
    {i \in 1..Len(local) :
        local[i].minutes > t /\ local[i].sparging_mashing_water_flow < 50}

\* High-flow samples of S that come more than g minutes after the previous
\* high-flow sample of S
AfterGap(S, g) ==
    {i \in S : \E h \in S :
        /\ h < i
        /\ \A j \in S : ~(h < j /\ j < i)
        /\ local[i].minutes - local[h].minutes > g}

\* The last high-flow sample of S before the first gap
BeforeFirstGap(S, g) == LastOf({h \in S : h < FirstOf(AfterGap(S, g))})

\* C18 (as claimed): phase 4 ends (1) shortly before the first gap of more
\* than 3 minutes between consecutive high-flow samples, that is no later than
\* the last high-flow sample before it; (2) with no gap, at the first low-flow
\* sample that follows; (3) with neither, at the last high-flow sample plus 2;
\* (4) with no high-flow sample, at the 15-minute window.
C18_Phase4PriorityChain ==
    SegmentedNew =>
        LET start == ret.phases[4].start
            end == ret.phases[4].end
            H == HighFrom(start)
        IN  IF H = {} THEN end = Window(start, 15)
            ELSE IF AfterGap(H, 3) # {}
                 THEN end <= local[BeforeFirstGap(H, 3)].minutes
            ELSE IF LowAfter(local[FirstOf(H)].minutes) # {}
                 THEN end = local[FirstOf(LowAfter(local[FirstOf(H)].minutes))].minutes
            ELSE end = local[LastOf(H)].minutes + 2

\* ------------------------------------------------------------------------
\* Phase 6 of detect_phases_new, on five-sample batches of constant weight,
\* long enough for a sparge, a pause and an interrupted second sparge
\* ------------------------------------------------------------------------
SpargeGaps == {1, 4}

SpargeBatches ==
    {BatchOf(5, gs, [i \in 2..5 |-> 0], fs) :
        gs \in [2..5 -> SpargeGaps], fs \in [1..5 -> PoolFlows]}

InitSparge ==
    /\ batch \in SpargeBatches
    /\ called = "none"
    /\ ret = NoReturn
    /\ local = <<>>
    /\ pool = <<>>
    /\ session_state = <<>>
    /\ files = <<>>

NextSparge == CallDetectPhasesNew

SpecSparge == InitSparge /\ [][NextSparge]_vars

\* The high-flow run that starts with the first sample of S: the samples of S
\* reached from it without leaving S
RunOf(S) == {i \in S : \A j \in FirstOf(S)..i : j \in S}

\* C19 (as claimed): phase 6 ends at the first low-flow sample after the last
\* sample of the high-flow run that starts at phase 6's start, at that last
\* high-flow time plus 5 when no low-flow sample follows, and at
\* min(start + 20, batch end) when the window has no high-flow sample.
C19_Phase6RunEnd ==
    SegmentedNew =>
        LET start == ret.phases[6].start
            end == ret.phases[6].end
            H == HighFrom(start)
            last == local[LastOf(RunOf(H))].minutes
        IN  IF H = {} THEN end = Window(start, 20)
            ELSE IF LowAfter(last) # {}
                 THEN end = local[FirstOf(LowAfter(last))].minutes
            ELSE end = last + 5

\* ------------------------------------------------------------------------
\* Phase 1 of detect_phases_new
\* ------------------------------------------------------------------------
\* Indices of the active samples of the batch (addition rate above 0.5)
ActiveSamples == {i \in 1..Len(local) : local[i].grist_flow > 5}

\* C20: phase 1 starts at the batch's minimum elapsed time and ends at the
\* time of the first sample whose addition rate exceeds 0.5, or at the start
\* plus 5 when no sample's does.
C20_Phase1End ==
    SegmentedNew =>
        /\ \A i \in 1..Len(batch) : ret.phases[1].start <= batch[i].minutes
        /\ \E i \in 1..Len(batch) : ret.phases[1].start = batch[i].minutes
        /\ ActiveSamples # {} =>
              ret.phases[1].end = local[FirstOf(ActiveSamples)].minutes
        /\ ActiveSamples = {} =>
              ret.phases[1].end = ret.phases[1].start + 5

\* A batch with two active samples has been segmented: phase 1 ends at the
\* first of them.
C20_Witness ==
    /\ SegmentedNew
    /\ Len(batch) = 3
    /\ ActiveSamples = {2, 3}
    /\ ret.phases[1].start = 0
    /\ ret.phases[1].end = local[2].minutes

\* ------------------------------------------------------------------------
\* Phases 3 and 5 of detect_phases_new
\* ------------------------------------------------------------------------
\* Indices of the high-flow samples (flow above 200) strictly after minute t
HighAfter(t) ==
    {i \in 1..Len(local) :
        local[i].minutes > t /\ local[i].sparging_mashing_water_flow > 200}

\* C21: phase 3 ends at the time of the first sample after its start whose
\* water flow exceeds 200, and at min(start + 60, batch end) when there is
\* none.
C21_Phase3End ==
    SegmentedNew =>
        LET start == ret.phases[3].start
        IN  /\ HighAfter(start) # {} =>
                  ret.phases[3].end = local[FirstOf(HighAfter(start))].minutes
            /\ HighAfter(start) = {} =>
                  ret.phases[3].end = Window(start, 60)

\* Phase 3 has ended at the first of two high-flow samples after its start.
C21_Witness ==
    /\ SegmentedNew
    /\ Len(batch) = 3
    /\ HighAfter(ret.phases[3].start) = {2, 3}
    /\ ret.phases[3].end = local[2].minutes
    /\ ret.phases[3].end > ret.phases[3].start

\* C22: if a sample after phase 5's start has a water flow above 200, phase 5
\* ends at the time of the first such sample minus 1; otherwise it ends at
\* min(start + 30, batch end).
C22_Phase5End ==
    SegmentedNew =>
        LET start == ret.phases[5].start
        IN  /\ HighAfter(start) # {} =>
                  ret.phases[5].end = local[FirstOf(HighAfter(start))].minutes - 1
            /\ HighAfter(start) = {} =>
                  ret.phases[5].end = Window(start, 30)

\* Phase 5 has ended one minute before a second high-flow sample.
C22_Witness ==
    /\ SegmentedNew
    /\ Len(batch) = 3
    /\ HighAfter(ret.phases[5].start) = {3}
    /\ ret.phases[5].end = local[3].minutes - 1
    /\ ret.phases[4].end > ret.phases[4].start

\* ------------------------------------------------------------------------
\* plot_single_batch and the Phase Analysis page: the rows of one batch as
\* they stand in mashing_df (any order, timestamps in whole minutes) are
\* sorted by timestamp and given their minutes column
\* ------------------------------------------------------------------------
PrepTimes == {10, 11, 15}

PrepFlows == {0, 400}

RawSample(t, w, f) ==
    [timestamp |-> t, greast_case_weight |-> w, sparging_mashing_water_flow |-> f,
     mashing_temp |-> 65, mashing_sparging_water_temp |-> 20]

\* Row i of the raw frame weighs 1000 - 50 * (i - 1) tenths of kg.
RawFrameOf(n, ts, fs) ==
    [i \in 1..n |-> RawSample(ts[i], 1000 - 50 * (i - 1), fs[i])]

Perms(n) == {f \in [1..n -> 1..n] : \A a, b \in 1..n : f[a] = f[b] => a = b}

\* Mutation of SortValues: the frame is left in the order it came in.
SortValuesSkipped(df) == {df}

\* df.sort_values('timestamp'): the default sort is not stable, so rows with
\* equal timestamps may come out in any order.
SortValues(df) ==
    {[i \in 1..Len(df) |-> df[f[i]]] : f \in
        {g \in Perms(Len(df)) :
            \A a, b \in 1..Len(df) :
                a < b => df[g[a]].timestamp <= df[g[b]].timestamp}}

\* batch_mashing['minutes'] = (timestamp - timestamp.min()) in minutes
WithMinutes(df) ==
    LET process_start == SeriesMin(Column(df, "timestamp"))
    IN  [i \in 1..Len(df) |->
            [timestamp |-> df[i].timestamp,
             minutes |-> Sub(df[i].timestamp, process_start),
             greast_case_weight |-> df[i].greast_case_weight,
             sparging_mashing_water_flow |-> df[i].sparging_mashing_water_flow,
             mashing_temp |-> df[i].mashing_temp,
             mashing_sparging_water_temp |-> df[i].mashing_sparging_water_temp]]

InitPrep ==
    /\ \E n \in 0..MaxLen :
          \E ts \in [1..n -> PrepTimes], fs \in [1..n -> PrepFlows] :
              batch = RawFrameOf(n, ts, fs)
    /\ called = "none"
    /\ ret = NoReturn
    /\ local = <<>>
    /\ pool = <<>>
    /\ session_state = <<>>
    /\ files = <<>>

\* plot_single_batch(batch_mashing, batch_id, params_to_plot) up to the
\* segmentation; an empty batch returns None after the warning.
PlotSingleBatch ==
    /\ called' = "plot_single_batch"
    /\ IF Len(batch) = 0
       THEN local' = <<>> /\ ret' = NoReturn
       ELSE \E sorted \in SortValues(batch) :
               /\ local' = WithMinutes(sorted)
               /\ ret' = detect_phases_new(WithMinutes(sorted))
    /\ UNCHANGED <<batch, pool, session_state, files>>

\* Phase Analysis page, main(): the same preparation, then detect_phases.
PhaseAnalysisPrepare ==
    /\ called' = "phase_analysis"
    /\ IF Len(batch) = 0
       THEN local' = <<>> /\ ret' = NoReturn
       ELSE \E sorted \in SortValues(batch) :
               /\ local' = WithMinutes(sorted)
               /\ ret' = detect_phases(WithMinutes(sorted))
    /\ UNCHANGED <<batch, pool, session_state, files>>

NextPrep == PlotSingleBatch \/ PhaseAnalysisPrepare

SpecPrep == InitPrep /\ [][NextPrep]_vars

Prepared == called \in {"plot_single_batch", "phase_analysis"} /\ Len(local) > 0

\* C23: the frame handed to the segmentation has minutes = 0 at its first
\* sample, minutes >= 0 at every sample and non-decreasing minutes.
C23_MinutesRezeroed ==
    Prepared =>
        /\ local[1].minutes = 0
        /\ \A i \in 1..Len(local) : local[i].minutes >= 0
        /\ \A i, j \in 1..Len(local) : i < j => local[i].minutes <= local[j].minutes

\* A batch whose rows came in descending time order, none at time 0, has been
\* prepared.
C23_Witness ==
    /\ Prepared
    /\ Len(batch) = 3
    /\ batch[1].timestamp > batch[2].timestamp
    /\ batch[2].timestamp > batch[3].timestamp
    /\ local[1].greast_case_weight = batch[3].greast_case_weight
    /\ local[3].minutes = 5

\* ------------------------------------------------------------------------
\* Phases 1 and 2 of detect_phases_new together
\* ------------------------------------------------------------------------
\* C24: if any sample of the batch is active, phase 2 ends at the last active
\* sample's time plus 1; with no active sample it ends at the minimum-weight
\* sample's time when some sample lies at or after minute 5, and at its start
\* plus 10 when the batch ends before minute 5.
C24_Phase2Branches ==
    SegmentedNew =>
        /\ ActiveSamples # {} =>
              ret.phases[2].end = local[LastOf(ActiveSamples)].minutes + 1
        /\ (ActiveSamples = {} /\ LastMinute >= 5) =>
              ret.phases[2].end = MinWeightMinute
        /\ (ActiveSamples = {} /\ LastMinute < 5) =>
              /\ ret.phases[2].start = 5
              /\ ret.phases[2].end = 15

\* A three-minute batch without any active sample has been segmented.
C24_Witness ==
    /\ SegmentedNew
    /\ Len(batch) = 3
    /\ ActiveSamples = {}
    /\ LastMinute = 2
    /\ ret.phases[2].end = 15

\* ------------------------------------------------------------------------
\* Detection chains forward in detect_phases_new
\* ------------------------------------------------------------------------
\* Phase 4 ended by one of its detection rules on the high-flow samples H.
Phase4Detected(H, end) ==
    \/ AfterGap(H, 3) # {} /\ end = local[FirstOf(AfterGap(H, 3))].minutes - 1
    \/ /\ AfterGap(H, 3) = {}
       /\ LowAfter(local[FirstOf(H)].minutes) # {}
       /\ end = local[FirstOf(LowAfter(local[FirstOf(H)].minutes))].minutes
    \/ /\ AfterGap(H, 3) = {}
       /\ LowAfter(local[FirstOf(H)].minutes) = {}
       /\ end = local[LastOf(H)].minutes + 2

\* Phase 6 ended by one of its detection rules on the high-flow samples H.
Phase6Detected(H, end) ==
    \/ /\ LowAfter(local[LastOf(H)].minutes) # {}
       /\ end = local[FirstOf(LowAfter(local[LastOf(H)].minutes))].minutes
    \/ /\ LowAfter(local[LastOf(H)].minutes) = {}
       /\ end = local[LastOf(H)].minutes + 5

\* C25: when phase 3 ends at a detected high-flow sample, that sample is in
\* phase 4's high-flow set and phase 4 ends by detection, not by its 15-minute
\* window; when phase 5 ends by detecting a second high-flow sample, phase 6
\* ends by detection, not by its 20-minute window.
C25_DetectionChains ==
    SegmentedNew =>
        /\ HighAfter(ret.phases[3].start) # {} =>
              /\ FirstOf(HighAfter(ret.phases[3].start)) \in HighFrom(ret.phases[4].start)
              /\ Phase4Detected(HighFrom(ret.phases[4].start), ret.phases[4].end)
        /\ HighAfter(ret.phases[5].start) # {} =>
              /\ FirstOf(HighAfter(ret.phases[5].start)) \in HighFrom(ret.phases[6].start)
              /\ Phase6Detected(HighFrom(ret.phases[6].start), ret.phases[6].end)

\* Phases 3 and 5 have both ended by detection; the windows of phases 4 and 6
\* would have given other ends.
C25_Witness ==
    /\ SegmentedNew
    /\ Len(batch) = 3
    /\ HighAfter(ret.phases[3].start) # {}
    /\ HighAfter(ret.phases[5].start) # {}
    /\ ret.phases[4].end # Window(ret.phases[4].start, 15)
    /\ ret.phases[6].end # Window(ret.phases[6].start, 20)

\* ------------------------------------------------------------------------
\* Phases of detect_phases_new that never end before they start
\* ------------------------------------------------------------------------
\* C26: on a non-empty batch whose minutes start at 0, phases 1, 4 and 6 have
\* end >= start, and phases 4 and 6 start no later than the batch's last
\* minute.
C26_Phases146Forward ==
    (SegmentedNew /\ batch[1].minutes = 0) =>
        /\ \A k \in {1, 4, 6} : ret.phases[k].end >= ret.phases[k].start
        /\ ret.phases[4].start <= LastMinute
        /\ ret.phases[6].start <= LastMinute

\* A batch has been segmented whose phase 3 ends before it starts while
\* phases 4 and 6 run forward.
C26_Witness ==
    /\ SegmentedNew
    /\ Len(batch) = 3
    /\ batch[1].minutes = 0
    /\ ret.phases[3].end < ret.phases[3].start
    /\ ret.phases[4].end > ret.phases[4].start
    /\ ret.phases[6].end > ret.phases[6].start

\* ------------------------------------------------------------------------
\* pages/1_Phase_Analysis.py: its own copies of detect_phases and
\* calculate_heat_available
\* ------------------------------------------------------------------------
\* Mutation of P2EndOldPage: the copy has drifted to the last active sample.
P2EndOldPageDrifted(df) ==
    LET grist_active == GristAbove(df, GristThresholdOld)
    IN  IF Len(grist_active) # 0
        THEN Val(Add(IlocLast(Column(grist_active, "minutes")).v, 1))
        ELSE LocMinutes(df, IdxMin(Column(df, "greast_case_weight")))

\* Phase 2 of the page's copy: idxmin and loc, without the initial_grist line
P2EndOldPage(df) == LocMinutes(df, IdxMin(Column(df, "greast_case_weight")))

SegmentOldPage(df, process_start, process_end) ==
    LET r1 == P1EndOld(df, process_start)
        r2 == P2EndOldPage(df)
        r3 == P3EndOld(df, r2.v)
        r4 == P4EndOld(df, r3.v)
        r5 == P5EndOld(df, r4.v, process_end)
        r6 == P6EndOld(df, r5.v, process_end)
    IN  IF r1.exc # "none" THEN Raised(r1.exc)
        ELSE IF r2.exc # "none" THEN Raised(r2.exc)
        ELSE IF r3.exc # "none" THEN Raised(r3.exc)
        ELSE IF r4.exc # "none" THEN Raised(r4.exc)
        ELSE IF r5.exc # "none" THEN Raised(r5.exc)
        ELSE IF r6.exc # "none" THEN Raised(r6.exc)
        ELSE Returned(BuildPhases(process_start,
                                  <<r1.v, r2.v, r3.v, r4.v, r5.v, r6.v>>,
                                  process_end))

detect_phases_page(batch_mashing) ==
    SegmentOldPage(WithGristFlow(batch_mashing, GristFlowOld(batch_mashing)),
                   SeriesMin(Column(batch_mashing, "minutes")),
                   SeriesMax(Column(batch_mashing, "minutes")))

\* The page's loop body: Q = mass_prev * cp_water * delta_T
HeatQPage(data, i) ==
    LET T_initial == data[i - 1].mashing_sparging_water_temp
        T_final == data[i].mashing_temp
        mass_prev == Mul(1, data[i - 1].sparging_mashing_water_flow)
        delta_T == IF PdNotNa(T_initial) /\ PdNotNa(T_final)
                   THEN T_final - T_initial ELSE 0
    IN  Mul(Mul(mass_prev, 418), delta_T)

calculate_heat_available_page(data) ==
    [exc |-> "none",
     data |-> [i \in 1..Len(data) |->
        [minutes |-> data[i].minutes,
         greast_case_weight |-> data[i].greast_case_weight,
         sparging_mashing_water_flow |-> data[i].sparging_mashing_water_flow,
         mashing_temp |-> data[i].mashing_temp,
         mashing_sparging_water_temp |-> data[i].mashing_sparging_water_temp,
         heat_available |-> IF i = 1 THEN 0 ELSE HeatQPage(data, i)]]]

\* phases = detect_phases(batch_mashing) on the page
CallDetectPhasesPage ==
    /\ called' = "detect_phases_page"
    /\ ret' = detect_phases_page(batch)
    /\ local' = AssignOnCopy(batch, WithGristFlow(batch, GristFlowOld(batch))).own
    /\ batch' = AssignOnCopy(batch, WithGristFlow(batch, GristFlowOld(batch))).caller
    /\ UNCHANGED <<pool, session_state, files>>

\* phase_data = calculate_heat_available(phase_data) on the page
CallCalculateHeatAvailablePage ==
    /\ called' = "calculate_heat_available_page"
    /\ ret' = calculate_heat_available_page(batch)
    /\ local' = AssignOnCopy(batch, calculate_heat_available_page(batch).data).own
    /\ batch' = AssignOnCopy(batch, calculate_heat_available_page(batch).data).caller
    /\ UNCHANGED <<pool, session_state, files>>

NextDup == CallDetectPhasesPage \/ CallCalculateHeatAvailablePage

DupDeltas == {0, -200}

InitDup ==
    /\ \/ \E n \in 0..MaxLen :
             \E gs \in [2..n -> Gaps], ds \in [2..n -> DupDeltas],
                fs \in [1..n -> ScanFlows] :
                 batch = BatchOf(n, gs, ds, fs)
       \/ \E n \in 0..MaxHeatLen :
             \E fs \in [1..n -> HeatFlows], tms \in [1..n -> MashTemps],
                tws \in [1..n -> WaterTemps] :
                 batch = HeatFrameOf(n, fs, tms, tws)
    /\ called = "none"
    /\ ret = NoReturn
    /\ local = <<>>
    /\ pool = <<>>
    /\ session_state = <<>>
    /\ files = <<>>

SpecDup == InitDup /\ [][NextDup]_vars

\* C27: on every batch the page's detect_phases returns the 7 phases that
\* v3.py's detect_phases returns (and raises exactly when that one raises),
\* and the page's calculate_heat_available returns the heat series that
\* v3.py's returns.
C27_CopiesAgree ==
    /\ called = "detect_phases_page" =>
          /\ (ret.exc = "none") = (detect_phases(batch).exc = "none")
          /\ ret.phases = detect_phases(batch).phases
    /\ called = "calculate_heat_available_page" =>
          ret.data = calculate_heat_available(batch).data

\* The page's detect_phases has segmented a batch with several active samples,
\* ending phase 2 at the minimum weight.
C27_Witness ==
    /\ called = "detect_phases_page"
    /\ Len(batch) = 3
    /\ batch[2].greast_case_weight < batch[1].greast_case_weight
    /\ batch[3].greast_case_weight < batch[2].greast_case_weight
    /\ Len(ret.phases) = 7
    /\ ret.phases[2].end = batch[3].minutes

\* ------------------------------------------------------------------------
\* The Streamlit application: the main page (v3.py main) and the two pages,
\* run one after another on one session.  Lists of batch ids are kept as
\* sets; an id is the sequence of the tokens its text splits into.
\* ------------------------------------------------------------------------
\* A token that int() accepts, and one it rejects
Tok(n) == [digits |-> TRUE, n |-> n, w |-> ""]

Word(w) == [digits |-> FALSE, n |-> 0, w |-> w]

\* Python's None, where a number is expected
None == -1

\* get_batch_numeric(batch_id): the id split at '_'
get_batch_numeric(batch_id) ==
    IF Len(batch_id) > 1
    THEN IF batch_id[2].digits THEN batch_id[2].n ELSE None
    ELSE IF batch_id[1].digits THEN batch_id[1].n ELSE None

\* The try block of main's loop over the codes, the code split at '-':
\* the set of numbers it adds for one code
CodeNumbers(code) ==
    IF Len(code) > 1
    THEN IF code[1].digits THEN {code[1].n} ELSE {}
    ELSE IF code[1].digits THEN {code[1].n} ELSE {}

intensity_options == <<"Any", "0", "1", "2", "3">>

\* int(intensity) for the options other than "Any"
IntOf(intensity) ==
    CASE intensity = "0" -> 0
      [] intensity = "1" -> 1
      [] intensity = "2" -> 2
      [] intensity = "3" -> 3

col_map ==
    [Cooked |-> "Cooked", Starchy |-> "Starchy", Husky |-> "Husky",
     Grainy |-> "Cereal_Grainy"]

\* Mutation of get_sensory_batches: the rows at or above the intensity match.
get_sensory_batches_at_least(sensory_df, note_type, intensity) ==
    IF Len(sensory_df) = 0 THEN <<>>
    ELSE IF intensity = "Any" THEN <<>>
    ELSE LET filtered == SelectSeq(sensory_df,
                            LAMBDA r : r[col_map[note_type]] >= IntOf(intensity))
         IN  [i \in 1..Len(filtered) |-> filtered[i].Blinding_Code]

\* get_sensory_batches(sensory_df, note_type, intensity): the codes of the
\* rows whose note equals the intensity; int("Any") lands in the except.
get_sensory_batches(sensory_df, note_type, intensity) ==
    IF Len(sensory_df) = 0 THEN <<>>
    ELSE IF intensity = "Any" THEN <<>>
    ELSE LET filtered == SelectSeq(sensory_df,
                            LAMBDA r : r[col_map[note_type]] = IntOf(intensity))
         IN  [i \in 1..Len(filtered) |-> filtered[i].Blinding_Code]

\* The data files: batch ids "A_1", "A_2", "3" and "A_x" in the mashing data,
\* the sensory sheet with codes "1-A", "2", "x-3" and "3-B"
BatchList == {<<Word("A"), Tok(1)>>, <<Word("A"), Tok(2)>>, <<Tok(3)>>,
              <<Word("A"), Word("x")>>}

SensoryRow(code, cooked, starchy, husky, grainy) ==
    [Blinding_Code |-> code, Cooked |-> cooked, Starchy |-> starchy,
     Husky |-> husky, Cereal_Grainy |-> grainy]

SensorySheet ==
    <<SensoryRow(<<Tok(1), Word("A")>>, 0, 1, 0, 1),
      SensoryRow(<<Tok(2)>>, 1, 1, 0, 0),
      SensoryRow(<<Word("x"), Tok(3)>>, 1, 0, 1, 0),
      SensoryRow(<<Tok(3), Word("B")>>, 0, 0, 0, 1)>>

FileSets ==
    {[batch_list |-> BatchList, good_batches |-> g,
      bad_batches |-> {1, 2, 3} \ g, sensory_df |-> sh] :
        g \in {{1, 3}, {2}}, sh \in {SensorySheet, <<>>}}

\* What the user may pick in a selectbox, and in the parameter multiselect
PickedIntensities == {intensity_options[i] : i \in 1..3}

DefaultParams == {"Grist Weight", "Water Flow", "Mash Temp", "Wort Temp"}

PickedParams == {DefaultParams, {}}

Has(ss, k) == k \in DOMAIN ss

SetKey(ss, k, v) == [x \in DOMAIN ss \cup {k} |-> IF x = k THEN v ELSE ss[x]]

SetDefault(ss, k, v) == IF Has(ss, k) THEN ss ELSE SetKey(ss, k, v)

init_session_state(ss) ==
    SetDefault(SetDefault(SetDefault(SetDefault(SetDefault(SetDefault(SetDefault(
        ss, "selected_batches", {}), "data_type", "Good Data"),
        "filter_cooked", "Any"), "filter_starchy", "Any"),
        "filter_husky", "Any"), "filter_grainy", "Any"),
        "ts_params", DefaultParams)

RECURSIVE SetKeys(_, _, _)
SetKeys(ss, ks, vs) ==
    IF ks = <<>> THEN ss
    ELSE SetKeys(SetKey(ss, Head(ks), Head(vs)), Tail(ks), Tail(vs))

\* The value a widget returns: what the user has just put in when this is the
\* widget the user touched, else the value the widget is built from.
Widget(touch, name, value, built_from) == IF touch = name THEN value ELSE built_from

SeqToSet(q) == {q[i] : i \in 1..Len(q)}

\* sensory_filters after the four ifs, as the set of codes collected
SensoryFilters(sensory_df, cooked, starchy, husky, grainy) ==
    SeqToSet(get_sensory_batches(sensory_df, "Cooked", cooked))
    \cup SeqToSet(get_sensory_batches(sensory_df, "Starchy", starchy))
    \cup SeqToSet(get_sensory_batches(sensory_df, "Husky", husky))
    \cup SeqToSet(get_sensory_batches(sensory_df, "Grainy", grainy))

\* base_ids after APPLY FILTERS
BaseIds(f, data_type, cooked, starchy, husky, grainy) ==
    LET chosen == IF data_type = "Good Data" THEN f.good_batches ELSE f.bad_batches
        filter_applied == cooked # "Any" \/ starchy # "Any" \/ husky # "Any"
                          \/ grainy # "Any"
        sensory_filters == SensoryFilters(f.sensory_df, cooked, starchy, husky, grainy)
        sensory_ids == UNION {CodeNumbers(code) : code \in sensory_filters}
    IN  IF filter_applied /\ sensory_filters # {} THEN chosen \cap sensory_ids
        ELSE IF filter_applied THEN {}
        ELSE chosen

AvailableBatches(batch_list, base_ids) ==
    {b \in batch_list : get_batch_numeric(b) \in base_ids}

\* Mutation of SelectDefault: the stored selection is always carried over.
SelectDefaultStale(stored, available_batches) == stored

\* default= of the batch multiselect
SelectDefault(stored, available_batches) ==
    IF \A b \in stored : b \in available_batches THEN stored ELSE {}

\* What the VISUALIZATION section does
Visualization(selected_batches, ts_params) ==
    IF selected_batches = {} THEN "warning_select_batches"
    ELSE IF ts_params = {} THEN "warning_select_parameter"
    ELSE IF Cardinality(selected_batches) = 1 THEN "plot_single_batch"
    ELSE "plot_multi_batch"

InitUI ==
    /\ files \in FileSets
    /\ session_state = <<>>
    /\ batch = <<>>
    /\ called = "none"
    /\ ret = NoReturn
    /\ local = <<>>
    /\ pool = <<>>

\* A run of the main page whose data load raises: init_session_state, the
\* error message, return.
MainLoadFails ==
    /\ called' = "main"
    /\ session_state' = init_session_state(session_state)
    /\ ret' = [outcome |-> "error_loading_data"]
    /\ UNCHANGED <<batch, local, pool, files>>

\* A complete run of the main page; the user has touched at most one widget
\* since the previous run.
MainRun(touch, value) ==
    LET ss == init_session_state(session_state)
        data_type == Widget(touch, "data_type", value, ss.data_type)
        filter_cooked == Widget(touch, "filter_cooked", value, ss.filter_cooked)
        filter_husky == Widget(touch, "filter_husky", value, ss.filter_husky)
        filter_starchy == Widget(touch, "filter_starchy", value, ss.filter_starchy)
        filter_grainy == Widget(touch, "filter_grainy", value, ss.filter_grainy)
        ts_params == Widget(touch, "ts_params", value, ss.ts_params)
        base_ids == BaseIds(files, data_type, filter_cooked, filter_starchy,
                            filter_husky, filter_grainy)
        available_batches == AvailableBatches(files.batch_list, base_ids)
        default == SelectDefault(ss.selected_batches, available_batches)
        selected_batches == Widget(touch, "selected_batches", value, default)
    IN  /\ touch = "selected_batches" => value \subseteq available_batches
        /\ called' = "main"
        /\ session_state' =
              SetKeys(ss,
                  <<"mashing_df", "parametric_df", "sensory_df", "good_batches",
                    "bad_batches", "batch_list", "data_type", "filter_cooked",
                    "filter_starchy", "filter_husky", "filter_grainy",
                    "ts_params", "filtered_batch_ids", "available_batches",
                    "selected_batches">>,
                  <<files.batch_list, "parametric", files.sensory_df,
                    files.good_batches, files.bad_batches, files.batch_list,
                    data_type, filter_cooked, filter_starchy, filter_husky,
                    filter_grainy, ts_params, base_ids, available_batches,
                    selected_batches>>)
        /\ ret' = [outcome |-> Visualization(selected_batches, ts_params),
                   stored |-> ss.selected_batches, default |-> default]
        /\ UNCHANGED <<batch, local, pool, files>>

Main ==
    \/ MainLoadFails
    \/ MainRun("none", 0)
    \/ \E v \in {"Good Data", "Bad/Partial Data"} : MainRun("data_type", v)
    \/ \E w \in {"filter_cooked", "filter_starchy", "filter_husky", "filter_grainy"} :
          \E v \in PickedIntensities : MainRun(w, v)
    \/ \E v \in PickedParams : MainRun("ts_params", v)
    \/ \E v \in SUBSET BatchList : MainRun("selected_batches", v)

\* Mutation of PageGuard: the selection is not looked at.
PageGuardDataOnly(ss) ==
    IF ~Has(ss, "mashing_df") THEN "warning_visit_main_page" ELSE "pass"

\* What both pages do first: the two guards
PageGuard(ss) ==
    IF ~Has(ss, "mashing_df") THEN "warning_visit_main_page"
    ELSE IF (IF Has(ss, "selected_batches") THEN ss.selected_batches ELSE {}) = {}
         THEN "warning_no_batch_selected"
    ELSE "pass"

\* pages/1_Phase_Analysis.py main(): every selected id is in the mashing data,
\* so the empty-batch error is taken only for an id that is not
PhaseAnalysisMain ==
    /\ called' = "phase_analysis"
    /\ IF PageGuard(session_state) # "pass"
       THEN ret' = [outcome |-> PageGuard(session_state)]
       ELSE \E batch_id \in session_state.selected_batches :
               ret' = [outcome |-> IF batch_id \in session_state.mashing_df
                                   THEN "detect_phases"
                                   ELSE "error_no_data_for_batch"]
    /\ UNCHANGED <<batch, local, pool, files, session_state>>

\* pages/2_Statistics.py main()
StatisticsMain ==
    /\ called' = "statistics"
    /\ ret' = [outcome |-> IF PageGuard(session_state) # "pass"
                           THEN PageGuard(session_state)
                           ELSE "statistics"]
    /\ UNCHANGED <<batch, local, pool, files, session_state>>

NextUI == Main \/ PhaseAnalysisMain \/ StatisticsMain

SpecUI == InitUI /\ [][NextUI]_vars

\* ------------------------------------------------------------------------
\* C28
\* ------------------------------------------------------------------------
MainCompleted == called = "main" /\ ret.outcome # "error_loading_data"

\* C28: after every completed run of the main page the stored selection is a
\* subset of the stored available batches, and when the selection held at the
\* start of the run has a batch that is no longer available the multiselect
\* is built with the empty default.
C28_SelectionWithinAvailable ==
    MainCompleted =>
        /\ session_state.selected_batches \subseteq session_state.available_batches
        /\ ~(ret.stored \subseteq session_state.available_batches)
              => ret.default = {}

\* A filter change has made a selected batch unavailable, and the run went on
\* with the empty selection.
C28_Witness ==
    /\ MainCompleted
    /\ ret.stored # {}
    /\ ~(ret.stored \subseteq session_state.available_batches)
    /\ session_state.available_batches # {}
    /\ ret.default = {}
    /\ session_state.selected_batches = {}

\* ------------------------------------------------------------------------
\* C29
\* ------------------------------------------------------------------------
PageRan == called \in {"phase_analysis", "statistics"}

PageWorked == PageRan /\ ret.outcome \in {"detect_phases", "statistics"}

PageWarned ==
    PageRan /\ ret.outcome \in {"warning_visit_main_page", "warning_no_batch_selected"}

\* The keys main stores after a successful load
DataKeys ==
    {"mashing_df", "parametric_df", "sensory_df", "good_batches", "bad_batches",
     "batch_list"}

\* The keys init_session_state fills in
DefaultKeys ==
    {"selected_batches", "data_type", "filter_cooked", "filter_starchy",
     "filter_husky", "filter_grainy", "ts_params"}

PagesGuarded ==
    /\ PageWorked' =>
          /\ Has(session_state', "mashing_df")
          /\ session_state'.selected_batches # {}
    /\ (PageRan' /\ ~PageWorked') =>
          /\ PageWarned'
          /\ ~Has(session_state', "mashing_df") \/ session_state'.selected_batches = {}
    /\ PageRan' => session_state' = session_state
    /\ (Has(session_state', "mashing_df") /\ ~Has(session_state, "mashing_df"))
          => MainCompleted'

LoadFailed == called = "main" /\ ret.outcome = "error_loading_data"

\* C29 as stated: the pages work only behind their two guards and warn
\* otherwise, and a main-page run whose load fails leaves session state as it
\* was.
C29_FailedLoadStoresNothing ==
    [][PagesGuarded /\ (LoadFailed' => session_state' = session_state)]_vars

\* C29, amended: the pages work only when mashing_df is in session state and a
\* batch is selected and warn otherwise, mashing_df gets into session state
\* only by a main-page run whose load succeeded, and a run whose load fails
\* stores none of the loaded data: it changes no key that is present and adds
\* only the defaults of init_session_state that were missing.
C29_FailedLoadStoresDefaultsOnly ==
    [][/\ PagesGuarded
       /\ LoadFailed' =>
             /\ DOMAIN session_state' = DOMAIN session_state \cup DefaultKeys
             /\ \A k \in DOMAIN session_state : session_state'[k] = session_state[k]
             /\ \A k \in DataKeys : Has(session_state', k) = Has(session_state, k)]_vars

\* A page opened after a failed load on a new session: the defaults are in
\* session state, the data is not, and the page warns.
C29_Witness ==
    /\ PageRan
    /\ ret.outcome = "warning_visit_main_page"
    /\ DOMAIN session_state = DefaultKeys

\* ------------------------------------------------------------------------
\* C30
\* ------------------------------------------------------------------------
NoteTypes == {"Cooked", "Starchy", "Husky", "Grainy"}

FilterKey ==
    [Cooked |-> "filter_cooked", Starchy |-> "filter_starchy",
     Husky |-> "filter_husky", Grainy |-> "filter_grainy"]

ActiveFilters(ss) == {n \in NoteTypes : ss[FilterKey[n]] # "Any"}

ChosenList(ss) ==
    IF ss.data_type = "Good Data" THEN ss.good_batches ELSE ss.bad_batches

RecordMatches(r, n, ss) == r[col_map[n]] = IntOf(ss[FilterKey[n]])

\* Some sensory record that matches filter n carries the number of batch b
BatchMatches(b, n, ss) ==
    \E i \in 1..Len(ss.sensory_df) :
        /\ RecordMatches(ss.sensory_df[i], n, ss)
        /\ get_batch_numeric(b) \in CodeNumbers(ss.sensory_df[i].Blinding_Code)

InChosenList(b, ss) == b \in ss.batch_list /\ get_batch_numeric(b) \in ChosenList(ss)

\* C30: after a completed run of the main page, with every filter at Any the
\* available batches are exactly the loaded batches whose numeric id is in
\* the chosen list; with a filter set, every available batch is in the chosen
\* list and matches at least one active filter; and when no sensory record
\* matches any active filter no batch is available.
C30_BatchFiltering ==
    MainCompleted =>
        LET ss == session_state
        IN  /\ ActiveFilters(ss) = {} =>
                  ss.available_batches = {b \in ss.batch_list : InChosenList(b, ss)}
            /\ ActiveFilters(ss) # {} =>
                  \A b \in ss.available_batches :
                      /\ InChosenList(b, ss)
                      /\ \E n \in ActiveFilters(ss) : BatchMatches(b, n, ss)
            /\ (/\ ActiveFilters(ss) # {}
                /\ \A n \in ActiveFilters(ss) : \A i \in 1..Len(ss.sensory_df) :
                       ~RecordMatches(ss.sensory_df[i], n, ss))
                  => ss.available_batches = {}

\* Two filters are set and an available batch matches one of them but not the
\* other.
C30_Witness ==
    /\ MainCompleted
    /\ Cardinality(ActiveFilters(session_state)) >= 2
    /\ \E b \in session_state.available_batches :
           \E n \in ActiveFilters(session_state) : ~BatchMatches(b, n, session_state)

====
